---------------------------- MODULE Spec2Model ----------------------------
(***************************************************************************)
(* Fitness Coach API (src/main.py, src/schemas.py).                        *)
(*                                                                         *)
(* The request handlers of main.py are modelled as operators computed the  *)
(* way the Python code computes them, and as actions over the meallog      *)
(* collection.  database.py is not among the source files: create_document *)
(* and get_documents follow section 4.1 of the specification.              *)
(*                                                                         *)
(* Numbers.  Calories and quantities of meal items are whole numbers.      *)
(* The diet plan is computed in exact fixed-point arithmetic: weight_kg    *)
(* and height_cm range over whole numbers, so 4*bmr is an integer, and     *)
(* every activity factor is a whole number of thousandths.                 *)
(*                                                                         *)
(* Strings the code transforms (sex, exercise) are sequences of one-       *)
(* character strings; strings it only compares are TLA+ strings.           *)
(***************************************************************************)
EXTENDS Integers, Sequences, FiniteSets, TLC

VARIABLES
    store,      \* the meallog collection: the sequence of stored documents
    nextId,     \* the identifier the store generates next
    log_ids,    \* history: the log_id of every successful log_meal response
    last,       \* sequential API: the request being handled / last handled
    reqs        \* concurrent API: the requests in flight, by arrival order

vars == <<store, nextId, log_ids, last, reqs>>

-----------------------------------------------------------------------------
(* Bounds of the model.                                                    *)

MaxLogs == 2        \* log_meal requests accepted by the sequential model
MaxItems == 2       \* items of one meal payload
MaxCalories == 2    \* calories of one item
MaxQuantity == 2    \* quantity of one item
MaxPad == 1         \* whitespace characters on each side of an exercise name
MaxRequests == 2    \* requests of the concurrent model
MaxStoreOps == 2    \* store operations of one request whose outcome is drawn

-----------------------------------------------------------------------------
(* Python values.                                                          *)

\* Optional[x]: None is the empty sequence, a present value x is <<x>>.
None == <<>>

Some(x) == <<x>>

Optional(S) == {None} \cup {Some(x) : x \in S}

\* `x or d` on an Optional number: None and 0 are both falsy.
PyOrOptional(x, d) == IF x = None THEN d ELSE IF x[1] = 0 THEN d ELSE x[1]

\* `x or d` on a number: 0 is falsy.
PyOr(x, d) == IF x = 0 THEN d ELSE x

RECURSIVE SumSeq(_)
SumSeq(s) == IF s = <<>> THEN 0 ELSE s[1] + SumSeq(Tail(s))

\* All sequences over S of length at most n.
SeqsUpTo(S, n) == UNION {[1..k -> S] : k \in 0..n}

-----------------------------------------------------------------------------
(* Characters and strings.                                                 *)

UpperCase == <<"A","B","C","D","E","F","G","H","I","J","K","L","M",
               "N","O","P","Q","R","S","T","U","V","W","X","Y","Z">>

LowerCase == <<"a","b","c","d","e","f","g","h","i","j","k","l","m",
               "n","o","p","q","r","s","t","u","v","w","x","y","z">>

Whitespace == {" ", "\t"}

LowerChar(c) ==
    IF \E i \in 1..26 : UpperCase[i] = c
    THEN LowerCase[CHOOSE i \in 1..26 : UpperCase[i] = c]
    ELSE c

UpperChar(c) ==
    IF \E i \in 1..26 : LowerCase[i] = c
    THEN UpperCase[CHOOSE i \in 1..26 : LowerCase[i] = c]
    ELSE c

\* str.lower()
lower(s) == [i \in 1..Len(s) |-> LowerChar(s[i])]

RECURSIVE lstrip(_)
lstrip(s) ==
    IF s # <<>> /\ s[1] \in Whitespace THEN lstrip(Tail(s)) ELSE s

RECURSIVE rstrip(_)
rstrip(s) ==
    IF s # <<>> /\ s[Len(s)] \in Whitespace
    THEN rstrip(SubSeq(s, 1, Len(s) - 1))
    ELSE s

\* str.strip()
strip(s) == rstrip(lstrip(s))

\* Every spelling of s that differs from it only in letter case.
CaseVariants(s) ==
    { [i \in 1..Len(s) |-> IF i \in U THEN UpperChar(s[i]) ELSE s[i]] :
        U \in SUBSET (1..Len(s)) }

-----------------------------------------------------------------------------
(* schemas.py: the persisted shapes.                                       *)

\* MealItem: name, calories >= 0 (required), quantity >= 0 or None.
MealItem(name, calories, quantity) ==
    [name |-> name, calories |-> calories, quantity |-> quantity]

\* MealItem's field constraints (pydantic rejects the request otherwise).
MealItemValid(item) ==
    /\ item.calories >= 0
    /\ item.quantity # None => item.quantity[1] >= 0

\* MealLog: the document log_meal builds.
MealLog(user_id, date, items, total_calories, notes) ==
    [user_id |-> user_id, date |-> date, items |-> items,
     total_calories |-> total_calories, notes |-> notes]

-----------------------------------------------------------------------------
(* The document-access layer (database.py, specification section 4.1).     *)

\* create_document: one atomic insert.  It either adds the document under
\* a newly generated identifier and returns that identifier, or raises and
\* leaves the collection as it was.  ok: the store accepts the write.
create_document(collection_name, data, st, id, ok) ==
    IF ok
    THEN [raised |-> FALSE,
          store |-> Append(st, [k \in DOMAIN data \cup {"_id"} |->
                                   IF k = "_id" THEN id ELSE data[k]]),
          nextId |-> id + 1,
          inserted_id |-> id]
    ELSE [raised |-> TRUE, store |-> st, nextId |-> id, inserted_id |-> 0]

\* A document matches a filter when it equals it on every field named.
Matches(d, filter_dict) ==
    \A k \in DOMAIN filter_dict : k \in DOMAIN d /\ d[k] = filter_dict[k]

\* get_documents: one atomic filtered read, in store order; an empty
\* sequence when nothing matches.  ok: the store answers the read.
get_documents(collection_name, filter_dict, st, ok) ==
    IF ok
    THEN [raised |-> FALSE,
          docs |-> SelectSeq(st, LAMBDA d : Matches(d, filter_dict))]
    ELSE [raised |-> TRUE, docs |-> <<>>]

\* db.list_collection_names(): the collections that hold documents.
list_collection_names(st) == IF st = <<>> THEN <<>> ELSE <<"meallog">>

-----------------------------------------------------------------------------
(* Responses.                                                              *)

\* An exception no handler catches: the framework answers 500.
ServerFault == [status |-> 500, body |-> [detail |-> "Internal Server Error"]]

\* raise HTTPException(status_code, detail)
HTTPException(status_code, detail) ==
    [status |-> status_code, body |-> [detail |-> detail]]

\* Request validation failed before the handler ran.
ValidationError == [status |-> 422, body |-> [detail |-> "validation error"]]

Ok(body) == [status |-> 200, body |-> body]

-----------------------------------------------------------------------------
(* POST /api/meal/log                                                      *)

\* total = sum((item.calories or 0) * (item.quantity or 1) for item in items)
log_meal_total(items) ==
    SumSeq([i \in 1..Len(items) |->
              PyOr(items[i].calories, 0) * PyOrOptional(items[i].quantity, 1)])

\* log_meal returning the earlier log when the payload was logged before.
log_meal_dedup(payload, st, id, avail) ==
    LET total == log_meal_total(payload.items)
        doc == MealLog(payload.user_id, payload.date, payload.items,
                       total, payload.notes)
        same == {i \in 1..Len(st) :
                    \A k \in DOMAIN doc : st[i][k] = doc[k]}
        w == create_document("meallog", doc, st, id, avail[1])
    IN  IF same # {}
        THEN [resp |-> Ok([log_id |-> st[CHOOSE i \in same : TRUE]._id,
                           total_calories |-> total]),
              store |-> st, nextId |-> id, ops |-> 1]
        ELSE IF w.raised
        THEN [resp |-> ServerFault, store |-> w.store, nextId |-> w.nextId,
              ops |-> 1]
        ELSE [resp |-> Ok([log_id |-> w.inserted_id,
                           total_calories |-> total]),
              store |-> w.store, nextId |-> w.nextId, ops |-> 1]

\* log_meal replacing the log the user already has for the date.
log_meal_upsert(payload, st, id, avail) ==
    LET total == log_meal_total(payload.items)
        doc == MealLog(payload.user_id, payload.date, payload.items,
                       total, payload.notes)
        rest == SelectSeq(st, LAMBDA d : ~(d.user_id = payload.user_id
                                           /\ d.date = payload.date))
        w == create_document("meallog", doc, rest, id, avail[1])
    IN  IF w.raised
        THEN [resp |-> ServerFault, store |-> st, nextId |-> id, ops |-> 1]
        ELSE [resp |-> Ok([log_id |-> w.inserted_id,
                           total_calories |-> total]),
              store |-> w.store, nextId |-> w.nextId, ops |-> 1]

\* log_meal trying the insert a second time when the first one raises.
log_meal_retry(payload, st, id, avail) ==
    LET total == log_meal_total(payload.items)
        doc == MealLog(payload.user_id, payload.date, payload.items,
                       total, payload.notes)
        w1 == create_document("meallog", doc, st, id, avail[1])
        w2 == create_document("meallog", doc, st, id, avail[2])
        w == IF w1.raised THEN w2 ELSE w1
    IN  IF w.raised
        THEN [resp |-> ServerFault, store |-> w.store, nextId |-> w.nextId,
              ops |-> 2]
        ELSE [resp |-> Ok([log_id |-> w.inserted_id,
                           total_calories |-> total]),
              store |-> w.store, nextId |-> w.nextId,
              ops |-> IF w1.raised THEN 2 ELSE 1]

\* The handler, given the collection, the identifier the store generates
\* next, and avail: whether the store accepts this request's first, second,
\* ... operation.  It returns the response, the collection afterwards and
\* the number of store operations it performed.
log_meal(payload, st, id, avail) ==
    LET total == log_meal_total(payload.items)
        doc == MealLog(payload.user_id, payload.date, payload.items,
                       total, payload.notes)
        w == create_document("meallog", doc, st, id, avail[1])
    IN  IF w.raised
        THEN [resp |-> ServerFault, store |-> w.store, nextId |-> w.nextId,
              ops |-> 1]
        ELSE [resp |-> Ok([log_id |-> w.inserted_id,
                           total_calories |-> total]),
              store |-> w.store, nextId |-> w.nextId, ops |-> 1]

-----------------------------------------------------------------------------
(* GET /api/meal/summary/{user_id}/{date}                                  *)

\* The filter without the date.
summary_filter_user_only(user_id, date) == [user_id |-> user_id]

\* The filter daily_summary hands to get_documents.
summary_filter(user_id, date) == [user_id |-> user_id, date |-> date]

\* The loop starting at the second document.
summary_total_skip_first(docs) ==
    SumSeq([i \in 1..(Len(docs) - 1) |->
              IF "total_calories" \in DOMAIN docs[i + 1]
              THEN docs[i + 1].total_calories ELSE 0])

\* total = 0.0; for d in docs: total += float(d.get("total_calories", 0))
summary_total(docs) ==
    SumSeq([i \in 1..Len(docs) |->
              IF "total_calories" \in DOMAIN docs[i]
              THEN docs[i].total_calories ELSE 0])

daily_summary(user_id, date, st, avail) ==
    LET r == get_documents("meallog", summary_filter(user_id, date), st,
                           avail[1])
    IN  IF r.raised
        THEN [resp |-> ServerFault, store |-> st, ops |-> 1]
        ELSE [resp |-> Ok([date |-> date,
                           total_calories |-> summary_total(r.docs)]),
              store |-> st, ops |-> 1]

-----------------------------------------------------------------------------
(* Diagnostics and /schema.                                                *)

read_root == Ok([message |-> "Fitness Coach Backend running"])

\* db_present: db is not None; list_ok: list_collection_names answers;
\* url_set, name_set: DATABASE_URL / DATABASE_NAME are in the environment.
test_database(st, db_present, list_ok, url_set, name_set) ==
    Ok([backend |-> "Running",
        database |-> IF ~db_present THEN "Available but not initialized"
                     ELSE IF list_ok THEN "Connected & Working"
                     ELSE "Connected but Error",
        database_url |-> IF ~db_present THEN "None"
                         ELSE IF url_set THEN "Set" ELSE "Not Set",
        database_name |-> IF ~db_present THEN "None"
                          ELSE IF name_set THEN "Set" ELSE "Not Set",
        connection_status |-> IF db_present THEN "Connected"
                              ELSE "Not Connected",
        collections |-> IF db_present /\ list_ok
                        THEN list_collection_names(st) ELSE <<>>])

get_schema_definitions ==
    Ok([collections |-> <<"user", "fooditem", "meallog", "exercise">>])

-----------------------------------------------------------------------------
(* POST /api/diet/plan                                                     *)

male == <<"m","a","l","e">>

female == <<"f","e","m","a","l","e">>

\* DietRequest's field constraints: age in [0, 120], height_cm >= 0,
\* weight_kg >= 0.
DietRequestValid(req) ==
    /\ req.age >= 0 /\ req.age <= 120
    /\ req.height_cm >= 0
    /\ req.weight_kg >= 0

\* _activity_factors, in thousandths.
activity_factors ==
    [sedentary |-> 1200, light |-> 1375, moderate |-> 1550,
     active |-> 1725, very_active |-> 1900]

\* The denominator of tdee and target: quarters (of bmr) times thousandths
\* (of the activity factor).
Scale == 4 * 1000

\* Python's round() of the rational n/d, d > 0: to the nearest integer,
\* a tie to the even one.
round(n, d) ==
    LET q == n \div d
        r == n % d
    IN  IF 2 * r < d THEN q
        ELSE IF 2 * r > d THEN q + 1
        ELSE IF q % 2 = 0 THEN q ELSE q + 1

Max(a, b) == IF a >= b THEN a ELSE b

\* The male constant used for both sexes.
bmr_x4_male_only(req, sex) ==
    40 * req.weight_kg + 25 * req.height_cm - 20 * req.age + 20

\* 4 * bmr (Mifflin-St Jeor), sex already lowercased.
bmr_x4(req, sex) ==
    IF sex = male
    THEN 40 * req.weight_kg + 25 * req.height_cm - 20 * req.age + 20
    ELSE 40 * req.weight_kg + 25 * req.height_cm - 20 * req.age - 644

\* Scale * tdee
tdee_scaled(req, sex) == bmr_x4(req, sex) * activity_factors[req.activity_level]

\* Scale * target, after the goal adjustment and before the lower bound.
goal_target(req, sex) ==
    IF req.goal = "lose" THEN tdee_scaled(req, sex) - 500 * Scale
    ELSE IF req.goal = "gain" THEN tdee_scaled(req, sex) + 300 * Scale
    ELSE tdee_scaled(req, sex)

\* No lower bound.
safety_lower_bound_missing(target) == target

\* target = max(1200, target)
safety_lower_bound(target) == Max(1200 * Scale, target)

tips == <<"Aim for whole foods: lean protein, veggies, fruits, whole grains",
          "Drink enough water (2-3L/day)",
          "Prioritize protein in each meal">>

\* DietPlan(...) from Scale * target: protein_cal = 0.30 * target and so on.
DietPlan(target) ==
    [target_calories |-> round(target, Scale),
     protein_g |-> round(30 * target, 100 * 4 * Scale),
     carbs_g |-> round(40 * target, 100 * 4 * Scale),
     fat_g |-> round(30 * target, 100 * 9 * Scale),
     tips |-> tips]

\* The sex compared as sent, without lowercasing.
diet_plan_case_sensitive(req) ==
    LET sex == req.sex
    IN  IF sex \notin {male, female}
        THEN HTTPException(400, "sex must be 'male' or 'female'")
        ELSE IF req.activity_level \notin DOMAIN activity_factors
        THEN HTTPException(400, "invalid activity_level")
        ELSE Ok(DietPlan(safety_lower_bound(goal_target(req, sex))))

diet_plan(req) ==
    LET sex == lower(req.sex)
    IN  IF sex \notin {male, female}
        THEN HTTPException(400, "sex must be 'male' or 'female'")
        ELSE IF req.activity_level \notin DOMAIN activity_factors
        THEN HTTPException(400, "invalid activity_level")
        ELSE Ok(DietPlan(safety_lower_bound(goal_target(req, sex))))

-----------------------------------------------------------------------------
(* POST /api/exercise/form                                                 *)

squat == <<"s","q","u","a","t">>

push_up == <<"p","u","s","h","-","u","p">>

deadlift == <<"d","e","a","d","l","i","f","t">>

\* The keys of _form_library.
form_names == {squat, push_up, deadlift}

\* _form_library[name]
form_library(name) ==
    CASE name = squat ->
           [cues |-> <<"Feet shoulder-width, toes slightly out",
                       "Brace core, neutral spine",
                       "Knees track over toes",
                       "Sit back and down until thighs are parallel">>,
            mistakes |-> <<"Heels lifting", "Knees collapsing in",
                           "Rounding the back">>]
      [] name = push_up ->
           [cues |-> <<"Hands under shoulders",
                       "Body in a straight line",
                       "Elbows ~45 degrees",
                       "Chest to floor, full lockout">>,
            mistakes |-> <<"Sagging hips", "Flaring elbows", "Half reps">>]
      [] name = deadlift ->
           [cues |-> <<"Bar over mid-foot",
                       "Hinge at hips, flat back",
                       "Lats tight, bar close",
                       "Push the floor, stand tall">>,
            mistakes |-> <<"Rounding lower back", "Jerking the bar",
                           "Bar drifting forward">>]

\* Lowercased but not stripped.
normalise_no_strip(exercise) == lower(exercise)

\* name = req.exercise.strip().lower()
normalise(exercise) == lower(strip(exercise))

exercise_form(req) ==
    LET name == normalise(req.exercise)
    IN  IF name \notin form_names
        THEN HTTPException(404,
                 "Exercise not found. Try squat, push-up, or deadlift")
        ELSE Ok([name |-> name,
                 cues |-> form_library(name).cues,
                 mistakes |-> form_library(name).mistakes])

-----------------------------------------------------------------------------
(* Requests.                                                               *)

Users == {"u1", "u2"}

Dates == {"2024-01-01", "2024-01-02"}

\* Items as pydantic may hand them to log_meal, and one it rejects
\* (calories < 0).
MealItems ==
    {MealItem("egg", c, q) :
        c \in (-1)..MaxCalories, q \in Optional(0..MaxQuantity)}

\* Every log_meal payload of one user and one date within the bounds.
MealPayloads ==
    {[user_id |-> "u1", date |-> "2024-01-01", items |-> items, notes |-> n] :
        items \in SeqsUpTo(MealItems, MaxItems),
        n \in {None, Some("lunch")}}

\* The payloads of the model with all endpoints: two users, two dates, and
\* an item list with every kind of quantity (absent, 0, more than 1).
SampleItems ==
    {<<MealItem("egg", 1, None)>>,
     <<MealItem("rice", 2, Some(2)), MealItem("tea", 1, Some(0))>>}

SamplePayloads ==
    {[user_id |-> u, date |-> d, items |-> items, notes |-> None] :
        u \in Users, d \in Dates, items \in SampleItems}

SummaryRequests == {[user_id |-> u, date |-> d] : u \in Users, d \in Dates}

SexInputs ==
    CaseVariants(male) \cup CaseVariants(female)
    \cup {<<"o","t","h","e","r">>, <<>>, <<"m","a","l","e","s">>,
          <<" ","m","a","l","e">>, <<"m">>}

ActivityInputs ==
    {"sedentary", "light", "moderate", "active", "very_active",
     "extreme", "Moderate"}

GoalInputs == {"lose", "maintain", "gain", "bulk"}

\* Ages, heights and weights: the extremes, the example of the
\* specification, a case where tdee falls on a half (41, 160, 70, light),
\* and values the field constraints reject (121, -1).
AgeInputs == {0, 30, 41, 120, 121}

HeightInputs == {0, 160, 180}

WeightInputs == {-1, 0, 70, 80}

DietRequest(age, sex, height_cm, weight_kg, activity_level, goal) ==
    [age |-> age, sex |-> sex, height_cm |-> height_cm,
     weight_kg |-> weight_kg, activity_level |-> activity_level,
     goal |-> goal]

DietRequests ==
    {DietRequest(a, s, h, w, l, g) :
        a \in AgeInputs, s \in SexInputs, h \in HeightInputs,
        w \in WeightInputs, l \in ActivityInputs, g \in GoalInputs}

SampleDietRequests ==
    {DietRequest(30, male, 180, 80, "moderate", "maintain"),
     DietRequest(30, female, 160, 70, "sedentary", "lose"),
     DietRequest(30, <<"o","t","h","e","r">>, 180, 80, "moderate", "gain"),
     DietRequest(121, male, 180, 80, "extreme", "maintain")}

\* Up to MaxPad whitespace characters.
Paddings == SeqsUpTo(Whitespace, MaxPad)

\* Every spelling of name that differs from it only in letter case and
\* in surrounding whitespace.
SpellingsOf(name) ==
    {l \o v \o r : l \in Paddings, v \in CaseVariants(name), r \in Paddings}

\* Names that are no spelling of a catalog name.
OtherExercises ==
    {<<"y","o","g","a">>, <<>>, <<"s","q","u","a","t","s">>,
     <<"s","q"," ","u","a","t">>, <<"p","u","s","h","u","p">>,
     <<"S","Q","U","A">>, <<"d","e","a","d","-","l","i","f","t">>}

OtherSpellings ==
    {l \o v \o r : l \in Paddings, v \in OtherExercises, r \in Paddings}

ExerciseInputs ==
    UNION {SpellingsOf(name) : name \in form_names} \cup OtherSpellings

SampleExerciseInputs ==
    {squat, <<" ","S","q","u","a","t","\t">>, <<"y","o","g","a">>}

-----------------------------------------------------------------------------
(* The API handling one request at a time.                                 *)

NoResponse == [status |-> 0, body |-> <<>>]

Idle ==
    [phase |-> "idle", op |-> "none", req |-> <<>>, resp |-> NoResponse,
     ops |-> 0, avail |-> <<>>]

\* A request has arrived and its handler has not run yet.
Received(op, req) ==
    [phase |-> "received", op |-> op, req |-> req, resp |-> NoResponse,
     ops |-> 0, avail |-> <<>>]

\* The handler has run: its response, the number of store operations it
\* performed, and the outcomes the store had in hand for them.
Responded(resp, ops, avail) ==
    [last EXCEPT !.phase = "responded", !.resp = resp, !.ops = ops,
                 !.avail = avail]

Handling(op) == last.phase = "received" /\ last.op = op

\* The outcomes the store may have in hand for a request's operations.
Availabilities == [1..MaxStoreOps -> BOOLEAN]

Receive(op, req) ==
    /\ last.phase # "received"
    /\ last' = Received(op, req)
    /\ UNCHANGED <<store, nextId, log_ids, reqs>>

ReceiveLogMeal ==
    /\ Len(store) < MaxLogs
    /\ \E payload \in SamplePayloads : Receive("log_meal", payload)

ReceiveDailySummary ==
    \E r \in SummaryRequests : Receive("daily_summary", r)

ReceiveDietPlan == \E r \in SampleDietRequests : Receive("diet_plan", r)

ReceiveExerciseForm ==
    \E e \in SampleExerciseInputs :
        Receive("exercise_form", [exercise |-> e])

ReceiveReadRoot == Receive("read_root", <<>>)

ReceiveTestDatabase == Receive("test_database", <<>>)

ReceiveGetSchema == Receive("get_schema_definitions", <<>>)

HandleLogMeal ==
    /\ Handling("log_meal")
    /\ IF \A i \in 1..Len(last.req.items) : MealItemValid(last.req.items[i])
       THEN \E avail \in Availabilities :
              LET r == log_meal(last.req, store, nextId, avail)
              IN  /\ store' = r.store
                  /\ nextId' = r.nextId
                  /\ log_ids' = IF r.resp.status = 200
                                THEN Append(log_ids, r.resp.body.log_id)
                                ELSE log_ids
                  /\ last' = Responded(r.resp, r.ops, avail)
       ELSE /\ last' = Responded(ValidationError, 0, <<>>)
            /\ UNCHANGED <<store, nextId, log_ids>>
    /\ UNCHANGED reqs

HandleDailySummary ==
    /\ Handling("daily_summary")
    /\ \E avail \in Availabilities :
         LET r == daily_summary(last.req.user_id, last.req.date, store, avail)
         IN  /\ store' = r.store
             /\ last' = Responded(r.resp, r.ops, avail)
    /\ UNCHANGED <<nextId, log_ids, reqs>>

HandleDietPlan ==
    /\ Handling("diet_plan")
    /\ last' = Responded(IF DietRequestValid(last.req)
                         THEN diet_plan(last.req)
                         ELSE ValidationError, 0, <<>>)
    /\ UNCHANGED <<store, nextId, log_ids, reqs>>

HandleExerciseForm ==
    /\ Handling("exercise_form")
    /\ last' = Responded(exercise_form(last.req), 0, <<>>)
    /\ UNCHANGED <<store, nextId, log_ids, reqs>>

HandleReadRoot ==
    /\ Handling("read_root")
    /\ last' = Responded(read_root, 0, <<>>)
    /\ UNCHANGED <<store, nextId, log_ids, reqs>>

\* list_collection_names is a read of the store; its failure is caught.
HandleTestDatabase ==
    /\ Handling("test_database")
    /\ \E db_present, list_ok, url_set, name_set \in BOOLEAN :
         last' = Responded(
                   test_database(store, db_present, list_ok, url_set, name_set),
                   IF db_present THEN 1 ELSE 0,
                   IF db_present THEN <<list_ok>> ELSE <<>>)
    /\ UNCHANGED <<store, nextId, log_ids, reqs>>

HandleGetSchema ==
    /\ Handling("get_schema_definitions")
    /\ last' = Responded(get_schema_definitions, 0, <<>>)
    /\ UNCHANGED <<store, nextId, log_ids, reqs>>

Init ==
    /\ store = <<>>
    /\ nextId = 1
    /\ log_ids = <<>>
    /\ last = Idle
    /\ reqs = <<>>

Next ==
    \/ ReceiveLogMeal
    \/ ReceiveDailySummary
    \/ ReceiveDietPlan
    \/ ReceiveExerciseForm
    \/ ReceiveReadRoot
    \/ ReceiveTestDatabase
    \/ ReceiveGetSchema
    \/ HandleLogMeal
    \/ HandleDailySummary
    \/ HandleDietPlan
    \/ HandleExerciseForm
    \/ HandleReadRoot
    \/ HandleTestDatabase
    \/ HandleGetSchema

Spec == Init /\ [][Next]_vars

-----------------------------------------------------------------------------
(* One request, drawn from every input within the bounds.                  *)

InitWith(op, requests) ==
    /\ store = <<>>
    /\ nextId = 1
    /\ log_ids = <<>>
    /\ \E r \in requests : last = Received(op, r)
    /\ reqs = <<>>

InitLogMeal == InitWith("log_meal", MealPayloads)

SpecLogMeal == InitLogMeal /\ [][HandleLogMeal]_vars

InitDiet == InitWith("diet_plan", DietRequests)

SpecDiet == InitDiet /\ [][HandleDietPlan]_vars

InitForm ==
    InitWith("exercise_form", {[exercise |-> e] : e \in ExerciseInputs})

SpecForm == InitForm /\ [][HandleExerciseForm]_vars

-----------------------------------------------------------------------------
(* The API handling requests concurrently.                                 *)
(*                                                                         *)
(* A handler touches shared state only in its one store operation; the     *)
(* rest works on the request's own values.  A request therefore takes      *)
(* three steps: it arrives, its handler runs up to and including the       *)
(* store operation (which fixes the response), and the response is         *)
(* returned.  Steps of different requests interleave freely.               *)

\* The sum of the stored total_calories of the documents of st whose
\* user_id and date are those asked for.
RECURSIVE MatchingSum(_, _, _)
MatchingSum(st, user_id, date) ==
    IF st = <<>> THEN 0
    ELSE (IF st[1].user_id = user_id /\ st[1].date = date
          THEN st[1].total_calories ELSE 0)
         + MatchingSum(Tail(st), user_id, date)

InFlight(op, req, st) ==
    [op |-> op, req |-> req, pc |-> "arrived", resp |-> NoResponse,
     ops |-> 0,
     \* history: the matching sums the store has held since the arrival
     window |-> IF op = "daily_summary"
                THEN {MatchingSum(st, req.user_id, req.date)} ELSE {}]

\* The windows of the summaries in flight, once the store has become st.
Observe(rs, st) ==
    [i \in 1..Len(rs) |->
        IF rs[i].op = "daily_summary" /\ rs[i].pc # "returned"
        THEN [rs[i] EXCEPT !.window =
                 @ \cup {MatchingSum(st, rs[i].req.user_id, rs[i].req.date)}]
        ELSE rs[i]]

\* The requests of the concurrent model: both users, both item lists, one
\* date.
ConcurrentPayloads == {p \in SamplePayloads : p.date = "2024-01-01"}

ConcurrentSummaries == {r \in SummaryRequests : r.date = "2024-01-01"}

Arrive ==
    /\ Len(reqs) < MaxRequests
    /\ \/ \E payload \in ConcurrentPayloads :
            reqs' = Append(reqs, InFlight("log_meal", payload, store))
       \/ \E r \in ConcurrentSummaries :
            reqs' = Append(reqs, InFlight("daily_summary", r, store))
    /\ UNCHANGED <<store, nextId, log_ids, last>>

RunLogMeal(i) ==
    /\ reqs[i].op = "log_meal" /\ reqs[i].pc = "arrived"
    /\ \E avail \in Availabilities :
         LET r == log_meal(reqs[i].req, store, nextId, avail)
         IN  /\ store' = r.store
             /\ nextId' = r.nextId
             /\ reqs' = Observe([reqs EXCEPT ![i].pc = "ran",
                                             ![i].resp = r.resp,
                                             ![i].ops = r.ops], r.store)
    /\ UNCHANGED <<log_ids, last>>

RunDailySummary(i) ==
    /\ reqs[i].op = "daily_summary" /\ reqs[i].pc = "arrived"
    /\ \E avail \in Availabilities :
         LET r == daily_summary(reqs[i].req.user_id, reqs[i].req.date,
                                store, avail)
         IN  /\ store' = r.store
             /\ reqs' = Observe([reqs EXCEPT ![i].pc = "ran",
                                             ![i].resp = r.resp,
                                             ![i].ops = r.ops], r.store)
    /\ UNCHANGED <<nextId, log_ids, last>>

Return(i) ==
    /\ reqs[i].pc = "ran"
    /\ reqs' = [reqs EXCEPT ![i].pc = "returned"]
    /\ log_ids' = IF reqs[i].op = "log_meal" /\ reqs[i].resp.status = 200
                  THEN Append(log_ids, reqs[i].resp.body.log_id)
                  ELSE log_ids
    /\ UNCHANGED <<store, nextId, last>>

NextConcurrent ==
    \/ Arrive
    \/ \E i \in 1..Len(reqs) : RunLogMeal(i)
    \/ \E i \in 1..Len(reqs) : RunDailySummary(i)
    \/ \E i \in 1..Len(reqs) : Return(i)

SpecConcurrent == Init /\ [][NextConcurrent]_vars

-----------------------------------------------------------------------------
(* Properties of the meal log.                                             *)

HandledOk(op) ==
    last.phase = "responded" /\ last.op = op /\ last.resp.status = 200

\* The sum over the items of calories * quantity, an absent quantity
\* counting as 1.
ExpectedTotal(items) ==
    SumSeq([i \in 1..Len(items) |->
              items[i].calories
              * (IF items[i].quantity = None THEN 1 ELSE items[i].quantity[1])])

\* C1: for items with non-negative calories and quantity (0 included),
\* log_meal returns and stores total_calories = the sum of calories *
\* quantity (absent quantity = 1); an empty list gives 0 and still creates
\* one log entry.
C1_TotalIsSumOfCaloriesTimesQuantity ==
    HandledOk("log_meal") =>
        /\ last.resp.body.total_calories = ExpectedTotal(last.req.items)
        /\ Len(store) = 1
        /\ store[1].total_calories = ExpectedTotal(last.req.items)

\* C2: daily_summary returns the sum of the stored total_calories of
\* exactly the logs whose user_id and date are the ones asked for, and 0,
\* not an error, when no log matches (whenever the store answers the read).
C2_SummaryIsMatchingSum ==
    (last.phase = "responded" /\ last.op = "daily_summary") =>
        /\ last.avail[1] => last.resp.status = 200
        /\ last.resp.status = 200 =>
             /\ last.resp.body.date = last.req.date
             /\ last.resp.body.total_calories =
                    MatchingSum(store, last.req.user_id, last.req.date)

\* C2's case: a summary over a store that holds a matching log and a log
\* of another user or date, both with calories.
C2_Witness ==
    /\ HandledOk("daily_summary")
    /\ last.resp.body.total_calories > 0
    /\ \E i \in 1..Len(store) :
         /\ store[i].total_calories > 0
         /\ ~(store[i].user_id = last.req.user_id
              /\ store[i].date = last.req.date)

\* C3: every successful log_meal returns a log_id no earlier call
\* returned, and creates a document of its own, also for a payload equal
\* to an earlier one.
C3_DistinctLogIds ==
    /\ \A i, j \in 1..Len(log_ids) : i # j => log_ids[i] # log_ids[j]
    /\ Len(store) = Len(log_ids)
    /\ \A i \in 1..Len(log_ids) : store[i]._id = log_ids[i]
    /\ HandledOk("log_meal") =>
         /\ log_ids # <<>>
         /\ last.resp.body.log_id = log_ids[Len(log_ids)]

SamePayload(d, e) ==
    /\ d.user_id = e.user_id /\ d.date = e.date
    /\ d.items = e.items /\ d.notes = e.notes

\* C3's case: two calls with the same payload have both succeeded.
C3_Witness ==
    /\ Len(log_ids) >= 2
    /\ HandledOk("log_meal")
    /\ \E i, j \in 1..Len(store) : i # j /\ SamePayload(store[i], store[j])

\* C8: the store is append-only.  A step either leaves it as it is or is
\* a successful log_meal appending exactly one document; every successful
\* log_meal appends one; no other endpoint changes it.
C8_AppendOnly ==
    [][/\ \/ store' = store
          \/ /\ last'.op = "log_meal" /\ last'.phase = "responded"
             /\ last'.resp.status = 200
             /\ Len(store') = Len(store) + 1
             /\ SubSeq(store', 1, Len(store)) = store
             /\ store'[Len(store')]._id = last'.resp.body.log_id
       /\ (last.phase = "received" /\ last'.phase = "responded"
           /\ last'.op = "log_meal" /\ last'.resp.status = 200)
          => Len(store') = Len(store) + 1
       /\ (last'.phase = "responded" /\ last'.op # "log_meal")
          => store' = store
      ]_vars

\* C8's case: with logs stored, a request to another endpoint was handled.
C8_Witness ==
    /\ Len(store) = MaxLogs
    /\ last.phase = "responded"
    /\ last.op = "diet_plan"

\* C9: a request performs at most one store operation and never retries:
\* when log_meal's store operation fails the request ends in a server
\* fault without a log_id and the store holds no new document; when
\* daily_summary's read fails the request ends in a server fault and the
\* store is unchanged.
C9_FailureIsTotal ==
    [][(last.phase = "received" /\ last'.phase = "responded") =>
         /\ last'.ops <= 1
         /\ (last'.op \in {"log_meal", "daily_summary"}
             /\ last'.avail # <<>> /\ ~last'.avail[1])
            => /\ last'.resp.status = 500
               /\ "log_id" \notin DOMAIN last'.resp.body
               /\ store' = store
               /\ log_ids' = log_ids
      ]_vars

\* C9's case: a log_meal failed at the store, which holds earlier logs.
C9_Witness ==
    /\ last.phase = "responded" /\ last.op = "log_meal"
    /\ last.resp.status = 500
    /\ ~last.avail[1] /\ last.avail[2]
    /\ store # <<>>

Succeeded(i) ==
    /\ reqs[i].op = "log_meal"
    /\ reqs[i].pc \in {"ran", "returned"}
    /\ reqs[i].resp.status = 200

\* C10: under every interleaving no meal log is lost or duplicated (the
\* stored documents are, one for one, the log_meal calls that succeeded),
\* and the total of each daily_summary is the matching sum the store held
\* at one instant between the request's arrival and its response.
C10_NoLostLogAndLinearizableSummary ==
    /\ Len(store) = Cardinality({i \in 1..Len(reqs) : Succeeded(i)})
    /\ \A i \in 1..Len(reqs) :
         Succeeded(i) =>
           Cardinality({k \in 1..Len(store) :
                           store[k]._id = reqs[i].resp.body.log_id}) = 1
    /\ (\A i \in 1..Len(reqs) : reqs[i].pc = "returned")
       => Len(log_ids) = Len(store)
    /\ \A i \in 1..Len(reqs) :
         (reqs[i].op = "daily_summary" /\ reqs[i].pc \in {"ran", "returned"}
          /\ reqs[i].resp.status = 200)
         => reqs[i].resp.body.total_calories \in reqs[i].window

\* C10's case: a summary has returned whose matching sum changed while it
\* was in flight.
C10_Witness ==
    \E i \in 1..Len(reqs) :
        /\ reqs[i].op = "daily_summary" /\ reqs[i].pc = "returned"
        /\ reqs[i].resp.status = 200
        /\ Cardinality(reqs[i].window) >= 2

-----------------------------------------------------------------------------
(* Properties of the diet plan.                                            *)

MaleSpellings == CaseVariants(male)

FemaleSpellings == CaseVariants(female)

RecognisedLevels ==
    {"sedentary", "light", "moderate", "active", "very_active"}

\* The reference computation, in hundred-thousandths of a kcal:
\* hundredths (of BMR) times thousandths (of the activity factor).
RefScale == 100 * 1000

RefBMR(req) ==
    1000 * req.weight_kg + 625 * req.height_cm - 500 * req.age
    + (IF req.sex \in MaleSpellings THEN 500 ELSE -16100)

RefFactor(level) ==
    CASE level = "sedentary" -> 1200
      [] level = "light" -> 1375
      [] level = "moderate" -> 1550
      [] level = "active" -> 1725
      [] level = "very_active" -> 1900

RefTDEE(req) == RefBMR(req) * RefFactor(req.activity_level)

\* TDEE - 500 for lose, TDEE + 300 for gain, TDEE for any other goal.
RefAdjusted(req) ==
    CASE req.goal = "lose" -> RefTDEE(req) - 500 * RefScale
      [] req.goal = "gain" -> RefTDEE(req) + 300 * RefScale
      [] OTHER -> RefTDEE(req)

RefTarget(req) ==
    IF RefAdjusted(req) < 1200 * RefScale
    THEN 1200 * RefScale ELSE RefAdjusted(req)

\* round(target), round(0.30 target / 4), round(0.40 target / 4),
\* round(0.30 target / 9).
RefPlan(req) ==
    [target_calories |-> round(RefTarget(req), RefScale),
     protein_g |-> round(3 * RefTarget(req), 40 * RefScale),
     carbs_g |-> round(RefTarget(req), 10 * RefScale),
     fat_g |-> round(RefTarget(req), 30 * RefScale)]

Numbers(plan) ==
    [target_calories |-> plan.target_calories, protein_g |-> plan.protein_g,
     carbs_g |-> plan.carbs_g, fat_g |-> plan.fat_g]

ExampleRequest == DietRequest(30, male, 180, 80, "moderate", "maintain")

\* C4: an accepted request whose target after the goal adjustment is
\* below 1200 gets target_calories = 1200 exactly, and every accepted
\* request gets target_calories >= 1200.
C4_ClampedTo1200 ==
    HandledOk("diet_plan") =>
        /\ last.resp.body.target_calories >= 1200
        /\ RefAdjusted(last.req) < 1200 * RefScale
           => last.resp.body.target_calories = 1200

\* C4's case: a plausible person whose adjusted target is below 1200.
C4_Witness ==
    /\ HandledOk("diet_plan")
    /\ last.req.weight_kg > 0 /\ last.req.height_cm > 0
    /\ RefAdjusted(last.req) > 0
    /\ RefAdjusted(last.req) < 1200 * RefScale

\* C5: a request whose sex is not male or female in some letter case, or
\* whose activity_level is not one of the five levels, is rejected with a
\* client error and gets no plan, whatever its other fields; a request
\* with a recognised sex in any letter case and a recognised level is not
\* rejected by this check.
C5_RejectsUnknownSexOrLevel ==
    (last.phase = "responded" /\ last.op = "diet_plan") =>
        LET known == /\ last.req.sex \in MaleSpellings \cup FemaleSpellings
                     /\ last.req.activity_level \in RecognisedLevels
        IN  /\ ~known =>
                 /\ last.resp.status \in {400, 422}
                 /\ DietRequestValid(last.req) => last.resp.status = 400
                 /\ "target_calories" \notin DOMAIN last.resp.body
            /\ known => last.resp.status # 400
            /\ (known /\ DietRequestValid(last.req))
               => last.resp.status = 200

\* C5's case: sex "other" with every other field valid is rejected.
C5_Witness ==
    /\ last.phase = "responded" /\ last.op = "diet_plan"
    /\ last.req.sex = <<"o","t","h","e","r">>
    /\ last.req.activity_level = "moderate"
    /\ DietRequestValid(last.req)
    /\ last.resp.status = 400

\* C7 as stated: every accepted request gets the reference plan, and the
\* example (30, male, 180 cm, 80 kg, moderate, maintain) gets
\* target_calories 2933, protein_g 220, carbs_g 293, fat_g 98.
C7_ReferencePlanAndStatedExample ==
    HandledOk("diet_plan") =>
        /\ Numbers(last.resp.body) = Numbers(RefPlan(last.req))
        /\ last.req = ExampleRequest
           => Numbers(last.resp.body) =
                [target_calories |-> 2933, protein_g |-> 220,
                 carbs_g |-> 293, fat_g |-> 98]

\* C7, amended: every accepted request gets the reference plan (round
\* being Python's round, a tie going to the even integer), any goal other
\* than lose and gain is treated as maintain without an error, and the
\* example gets target_calories 2759, protein_g 207, carbs_g 276,
\* fat_g 92 (BMR 1780, TDEE 2759).
C7_ReferencePlan ==
    (last.phase = "responded" /\ last.op = "diet_plan") =>
        /\ (/\ DietRequestValid(last.req)
            /\ last.req.sex \in MaleSpellings \cup FemaleSpellings
            /\ last.req.activity_level \in RecognisedLevels)
           => last.resp.status = 200
        /\ last.resp.status = 200 =>
             /\ Numbers(last.resp.body) = Numbers(RefPlan(last.req))
             /\ last.resp.body.tips = tips
             /\ last.req = ExampleRequest
                => Numbers(last.resp.body) =
                     [target_calories |-> 2759, protein_g |-> 207,
                      carbs_g |-> 276, fat_g |-> 92]

\* C7's case: the example request has been answered.
C7_Witness ==
    /\ HandledOk("diet_plan")
    /\ last.req = ExampleRequest
    /\ last.resp.body.target_calories = 2759

-----------------------------------------------------------------------------
(* Properties of the exercise form lookup.                                 *)

\* e is name with each letter in either case, between whitespace.
IsSpellingOf(e, name) ==
    \E a, b \in 0..Len(e) :
        /\ Len(e) = a + Len(name) + b
        /\ \A i \in 1..a : e[i] \in Whitespace
        /\ \A i \in 1..b : e[a + Len(name) + i] \in Whitespace
        /\ \A i \in 1..Len(name) : e[a + i] \in {name[i], UpperChar(name[i])}

\* C6: an input that differs from a catalog name only by letter case or
\* surrounding whitespace gets the name, cues and mistakes the exact name
\* gets; any other input fails with not-found.
C6_LookupIgnoresCaseAndPadding ==
    (last.phase = "responded" /\ last.op = "exercise_form") =>
        /\ \A name \in form_names :
             IsSpellingOf(last.req.exercise, name) =>
               /\ last.resp.status = 200
               /\ last.resp.body.name = name
               /\ last.resp = exercise_form([exercise |-> name])
        /\ (\A name \in form_names : ~IsSpellingOf(last.req.exercise, name))
           => last.resp.status = 404

\* C6's case: a padded, not all-lowercase spelling of a catalog name has
\* been looked up.
C6_Witness ==
    /\ HandledOk("exercise_form")
    /\ IsSpellingOf(last.req.exercise, deadlift)
    /\ last.req.exercise[1] \in Whitespace
    /\ last.req.exercise[Len(last.req.exercise)] \in Whitespace
    /\ \E i \in 1..Len(last.req.exercise) :
         last.req.exercise[i] \in {"D", "E", "A", "L", "I", "F", "T"}

=============================================================================
